---- MODULE Spec2Model ----
(***************************************************************************)
(* Model of benchmark.py: the RPC caller (rpc_call), the two gated batch   *)
(* runners (test_flood over asyncio.Semaphore, test_limit over             *)
(* aiolimiter.AsyncLimiter) and the scenario sweeps that sequence batches. *)
(*                                                                         *)
(* Four specifications share the module:                                   *)
(*   CallSpec   one rpc_call, over every outcome of the POST               *)
(*   Spec       one batch (flood or limit mode), one process per task      *)
(*   FairSpec   Spec with the event loop's fairness                        *)
(*   SweepSpec  one sweep of main(), batches counted call by call          *)
(***************************************************************************)
EXTENDS Integers, Sequences, FiniteSets, TLC

VARIABLES
    \* ---- one rpc_call (CallSpec)
    cclient,    \* the client argument: 0 = a single client, k > 0 = a list of k clients
    cchosen,    \* the client the call uses (0 = the single client, j = j-th of the list)
    coutcome,   \* what the POST resolved to
    cpc,        \* "start", "posting", "returned", "raised"
    cret,       \* what rpc_call returned or raised
    \* ---- one batch (Spec, FairSpec)
    mode,       \* "flood" (test_flood) or "limit" (test_limit)
    blocks,     \* length of the block range
    gate,       \* concurrency (flood) or limit (limit)
    pc,         \* per task: "pending", "waiting", "woken", "posting", "done", "raised", "cancelled"
    calls,      \* per task: the value its coroutine returned or raised
    value,      \* asyncio.Semaphore._value
    waiters,    \* asyncio.Semaphore._waiters, FIFO
    level,      \* AsyncLimiter._level, in units of 1/TimePeriod
    last_check, \* AsyncLimiter._last_check
    now,        \* loop.time(), seconds since the batch started
    admits,     \* the instants at which the rate gate admitted a call
    phase,      \* "gathering", "persisted", "crashed"
    csv,        \* rows written by stats_df.to_csv
    \* ---- one sweep (SweepSpec)
    sweep,      \* which sweep main() awaits
    conc,       \* the concurrency argument of test_flood_protocols_all_providers
    loopv,      \* the loop variables of the sweep
    dpc,        \* driver: "call", "batch", "sleep", "done", "crashed"
    cur,        \* the batch test_flood is running
    counts,     \* calls of the running batch: waiting, in flight, finished, raised
    stale,      \* calls of earlier batches still in flight
    files,      \* label -> batches that wrote output/<label>.csv
    slept,      \* seconds slept since the last batch was persisted
    seq         \* number of batches started

callVars == <<cclient, cchosen, coutcome, cpc, cret>>
batchVars == <<mode, blocks, gate, pc, calls, value, waiters, level, last_check,
               now, admits, phase, csv>>
sweepVars == <<sweep, conc, loopv, dpc, cur, counts, stale, files, slept, seq>>
vars == <<callVars, batchVars, sweepVars>>

----------------------------------------------------------------------------
\* Bounds of the model

MaxPool == 3        \* largest client list handed to one rpc_call in CallSpec
MaxBlocks == 3      \* longest block range of a batch in Spec
MaxGate == 2        \* largest concurrency / limit of a batch in Spec
Tick == 15          \* seconds the clock advances per step in limit mode
MaxTime == 75      \* the clock stops advancing here

----------------------------------------------------------------------------
\* JSON values as far as rpc_call looks into them: a value is null, a string
\* or an object; of an object only the member "message" is read.

Absent == [t |-> "absent", s |-> "", mt |-> "absent", ms |-> ""]
Null == [t |-> "null", s |-> "", mt |-> "absent", ms |-> ""]
Str(x) == [t |-> "str", s |-> x, mt |-> "absent", ms |-> ""]
Obj(mt, ms) == [t |-> "obj", s |-> "", mt |-> mt, ms |-> ms]

\* The values a body's top-level "error" member takes in the model.
ErrorFields ==
    { Absent, Null, Str("boom"), Str(""),
      Obj("str", "X"), Obj("str", ""), Obj("absent", ""), Obj("null", "") }

\* Response bodies: not JSON at all, a JSON array, or a JSON object.
Bodies ==
    { [json |-> "invalid", error |-> Absent], [json |-> "array", error |-> Absent] }
    \cup { [json |-> "object", error |-> e] : e \in ErrorFields }

Statuses == {200, 201, 301, 404, 429, 500}

NoResponse == [status |-> 0, body |-> [json |-> "invalid", error |-> Absent]]

\* What `await client.post(...)` resolves to: an exception of one of these
\* classes, or a response.
PostExceptions == {"RequestError", "TimeoutException", "ProtocolError"}

Outcomes ==
    { [kind |-> k, response |-> NoResponse] : k \in PostExceptions }
    \cup { [kind |-> "response", response |-> [status |-> st, body |-> b]] :
             st \in Statuses, b \in Bodies }

NoOutcome == [kind |-> "none", response |-> NoResponse]

----------------------------------------------------------------------------
\* rpc_call

\* The classes each exception is an instance of (httpx and h2 hierarchies).
Bases(exc) ==
    CASE exc = "RequestError" -> {"RequestError", "HTTPError"}
      [] exc = "TimeoutException" -> {"TimeoutException", "RequestError", "HTTPError"}
      [] exc = "HTTPStatusError" -> {"HTTPStatusError", "HTTPError"}
      [] exc = "ProtocolError" -> {"ProtocolError"}
      [] OTHER -> {exc}

\* Mutant of ExceptClasses: the clause without httpx.HTTPError.
ExceptClassesTransportOnly == {"RequestError", "ProtocolError"}

\* except (httpx.RequestError, httpx.HTTPError, h2.exceptions.ProtocolError)
ExceptClasses == {"RequestError", "HTTPError", "ProtocolError"}

\* res.raise_for_status(): the exception it raises, "" when it returns.
raise_for_status(response) ==
    IF response.status \in 200..299 THEN "" ELSE "HTTPStatusError"

repr(exc) == Str("repr(" \o exc \o ")")

\* res.json(): the exception raised while reading the body as a mapping
\* (the decoder on a body that is not JSON, .get on a body that is no
\* object), "" when the body is a JSON object.
json_get_raises(body) ==
    CASE body.json = "invalid" -> "JSONDecodeError"
      [] body.json = "array" -> "AttributeError"
      [] OTHER -> ""

\* d.get(key, None) on a member that may be absent.
dict_get(member) == IF member.t = "absent" THEN Null ELSE member

\* error.get("message") on the error object.
message_get(error) ==
    CASE error.mt = "absent" -> Null
      [] error.mt = "null" -> Null
      [] OTHER -> Str(error.ms)

\* Mutant of unwrap_error: the error member is kept as it is.
unwrap_error_verbatim(error) == error

\* if isinstance(error, dict): error = error.get("message")
unwrap_error(error) == IF error.t = "obj" THEN message_get(error) ELSE error

Returned(res, error) == [exc |-> "", res |-> res, error |-> error]
Raised(exc) == [exc |-> exc, res |-> "None", error |-> Null]
NoReturn == [exc |-> "", res |-> "None", error |-> Absent]

\* rpc_call from the point where the POST has resolved to outcome o, up to
\* its return (or the exception that leaves it).
rpc_call(o) ==
    LET thrown == IF o.kind # "response" THEN o.kind
                  ELSE raise_for_status(o.response)
        caught == thrown # "" /\ Bases(thrown) \cap ExceptClasses # {}
    IN  IF thrown # "" /\ ~caught THEN Raised(thrown)
        ELSE IF caught THEN Returned("None", repr(thrown))
        ELSE IF json_get_raises(o.response.body) # ""
             THEN Raised(json_get_raises(o.response.body))
        ELSE Returned("Response", unwrap_error(dict_get(o.response.body.error)))

\* ---- CallSpec: one rpc_call

CallIdle ==
    /\ cclient = 0
    /\ cchosen = 0
    /\ coutcome = NoOutcome
    /\ cpc = "idle"
    /\ cret = NoReturn

\* lines 54-70: pick a client from the list, stamp start, issue the POST.
RpcCallPost ==
    /\ cpc = "start"
    /\ \E j \in (IF cclient = 0 THEN {0} ELSE 1..cclient) : cchosen' = j
    /\ cpc' = "posting"
    /\ UNCHANGED <<cclient, coutcome, cret>>
    /\ UNCHANGED <<batchVars, sweepVars>>

\* lines 62-95: the POST resolves; the rest of rpc_call runs to its end.
RpcCallResolve ==
    /\ cpc = "posting"
    /\ \E o \in Outcomes :
          /\ coutcome' = o
          /\ cret' = rpc_call(o)
          /\ cpc' = IF rpc_call(o).exc # "" THEN "raised" ELSE "returned"
    /\ UNCHANGED <<cclient, cchosen>>
    /\ UNCHANGED <<batchVars, sweepVars>>

----------------------------------------------------------------------------
\* test_flood and test_limit: one batch, one process per task

Tasks == 1..blocks

\* The outcomes the tasks of a batch draw from: a transport failure, a
\* non-2xx status, a 2xx JSON object without and with an error, and a 2xx
\* body that is not JSON.
BatchOutcomes ==
    { [kind |-> "RequestError", response |-> NoResponse],
      [kind |-> "response",
       response |-> [status |-> 500, body |-> [json |-> "invalid", error |-> Absent]]],
      [kind |-> "response",
       response |-> [status |-> 200, body |-> [json |-> "object", error |-> Absent]]],
      [kind |-> "response",
       response |-> [status |-> 200,
                     body |-> [json |-> "object", error |-> Obj("str", "X")]]],
      [kind |-> "response",
       response |-> [status |-> 200, body |-> [json |-> "invalid", error |-> Absent]]] }

BatchIdle ==
    /\ mode = "none"
    /\ blocks = 0
    /\ gate = 0
    /\ pc = <<>>
    /\ calls = <<>>
    /\ value = 0
    /\ waiters = <<>>
    /\ level = 0
    /\ last_check = 0
    /\ now = 0
    /\ admits = <<>>
    /\ phase = "none"
    /\ csv = <<>>

\* ---- asyncio.Semaphore(concurrency)

\* Semaphore.locked()
locked == value = 0 \/ waiters # <<>>

Waiting(w, p) == { i \in 1..Len(w) : p[w[i]] = "waiting" }

FirstWaiting(w, p) == CHOOSE i \in Waiting(w, p) : \A j \in Waiting(w, p) : i <= j

\* Semaphore._wake_up_next() on value v, waiters w and task states p: the
\* first waiter not yet woken takes a permit and is made runnable.
wake_up_next(v, w, p) ==
    IF Waiting(w, p) = {} THEN [value |-> v, pc |-> p]
    ELSE [value |-> v - 1, pc |-> [p EXCEPT ![w[FirstWaiting(w, p)]] = "woken"]]

\* Semaphore.release()
release(v, w, p) == wake_up_next(v + 1, w, p)

Without(w, t) == SelectSeq(w, LAMBDA x : x # t)

\* ---- AsyncLimiter(limit): a leaky bucket of capacity max_rate that drains
\* max_rate per time_period

TimePeriod == 60

\* Mutant of max_rate: the limiter is built for twice the limit.
max_rate_doubled == 2 * gate

\* line 103: AsyncLimiter(limit), max_rate = limit
max_rate == gate

Max(a, b) == IF a >= b THEN a ELSE b

\* AsyncLimiter._leak() at loop time t
leak(lv, lc, t) == IF lv # 0 THEN Max(lv - (t - lc) * max_rate, 0) ELSE lv

\* AsyncLimiter.has_capacity(1), after the leak
has_capacity(lv) == lv + TimePeriod <= max_rate * TimePeriod

\* ---- the tasks

\* Mutant of FloodStart: the task calls rpc_call without entering the gate.
FloodStartUngated(t) ==
    /\ mode = "flood" /\ phase = "gathering"
    /\ pc[t] = "pending"
    /\ pc' = [pc EXCEPT ![t] = "posting"]
    /\ UNCHANGED <<mode, blocks, gate, calls, value, waiters, level, last_check, now,
                   admits, phase, csv>>
    /\ UNCHANGED <<callVars, sweepVars>>

\* test_flood lines 137-139: a task's first step enters `async with sem`.
FloodStart(t) ==
    /\ mode = "flood" /\ phase = "gathering"
    /\ pc[t] = "pending"
    /\ IF ~locked
       THEN /\ value' = value - 1
            /\ pc' = [pc EXCEPT ![t] = "posting"]
            /\ UNCHANGED waiters
       ELSE /\ waiters' = Append(waiters, t)
            /\ pc' = [pc EXCEPT ![t] = "waiting"]
            /\ UNCHANGED value
    /\ UNCHANGED <<mode, blocks, gate, calls, level, last_check, now, admits, phase, csv>>
    /\ UNCHANGED <<callVars, sweepVars>>

\* Semaphore.acquire() after its future was resolved: leave the queue, pass
\* a spare permit on, enter rpc_call.
FloodResume(t) ==
    /\ mode = "flood" /\ phase = "gathering"
    /\ pc[t] = "woken"
    /\ LET w == Without(waiters, t)
           p == [pc EXCEPT ![t] = "posting"]
           r == IF value > 0 THEN wake_up_next(value, w, p)
                ELSE [value |-> value, pc |-> p]
       IN  /\ waiters' = w
           /\ value' = r.value
           /\ pc' = r.pc
    /\ UNCHANGED <<mode, blocks, gate, calls, level, last_check, now, admits, phase, csv>>
    /\ UNCHANGED <<callVars, sweepVars>>

\* test_flood lines 138-141: the POST of task t resolves, rpc_call runs to
\* its end, `async with` releases the permit, the task ends.
FloodResolve(t) ==
    /\ mode = "flood" /\ phase = "gathering"
    /\ pc[t] = "posting"
    /\ \E o \in BatchOutcomes :
         LET ret == rpc_call(o)
             p == [pc EXCEPT ![t] = IF ret.exc # "" THEN "raised" ELSE "done"]
             r == release(value, waiters, p)
         IN  /\ calls' = [calls EXCEPT ![t] = ret]
             /\ value' = r.value
             /\ pc' = r.pc
    /\ UNCHANGED <<mode, blocks, gate, waiters, level, last_check, now, admits, phase, csv>>
    /\ UNCHANGED <<callVars, sweepVars>>

\* AsyncLimiter.acquire(): leak, then take capacity or wait for a drip.
LimitAcquire(t) ==
    LET lv == leak(level, last_check, now)
    IN  /\ last_check' = now
        /\ IF has_capacity(lv)
           THEN /\ level' = lv + TimePeriod
                /\ admits' = Append(admits, now)
                /\ pc' = [pc EXCEPT ![t] = "posting"]
           ELSE /\ level' = lv
                /\ admits' = admits
                /\ pc' = [pc EXCEPT ![t] = "waiting"]

\* test_limit lines 105-107: a task's first step enters `async with sem`.
LimitStart(t) ==
    /\ mode = "limit" /\ phase = "gathering"
    /\ pc[t] = "pending"
    /\ LimitAcquire(t)
    /\ UNCHANGED <<mode, blocks, gate, calls, value, waiters, now, phase, csv>>
    /\ UNCHANGED <<callVars, sweepVars>>

\* AsyncLimiter.acquire(): a waiting task wakes (its wait timed out or it
\* was signalled) and tries the bucket again.
LimitRetry(t) ==
    /\ mode = "limit" /\ phase = "gathering"
    /\ pc[t] = "waiting"
    /\ LimitAcquire(t)
    /\ UNCHANGED <<mode, blocks, gate, calls, value, waiters, now, phase, csv>>
    /\ UNCHANGED <<callVars, sweepVars>>

\* test_limit lines 106-109: the POST of task t resolves, rpc_call runs to
\* its end; leaving the limiter's `async with` does nothing.
LimitResolve(t) ==
    /\ mode = "limit" /\ phase = "gathering"
    /\ pc[t] = "posting"
    /\ \E o \in BatchOutcomes :
         LET ret == rpc_call(o)
         IN  /\ calls' = [calls EXCEPT ![t] = ret]
             /\ pc' = [pc EXCEPT ![t] = IF ret.exc # "" THEN "raised" ELSE "done"]
    /\ UNCHANGED <<mode, blocks, gate, value, waiters, level, last_check, now, admits,
                   phase, csv>>
    /\ UNCHANGED <<callVars, sweepVars>>

\* Wall-clock time passes.
TickClock ==
    /\ mode = "limit" /\ phase = "gathering"
    /\ now + Tick <= MaxTime
    /\ now' = now + Tick
    /\ UNCHANGED <<mode, blocks, gate, pc, calls, value, waiters, level, last_check,
                   admits, phase, csv>>
    /\ UNCHANGED <<callVars, sweepVars>>

\* lines 121-127 / 153-159: gather returns every task's result in block
\* order; the stats are written to output/<label>.csv.
Persist ==
    /\ phase = "gathering"
    /\ \A t \in Tasks : pc[t] = "done"
    /\ csv' = [t \in Tasks |-> [error |-> calls[t].error]]
    /\ phase' = "persisted"
    /\ UNCHANGED <<mode, blocks, gate, pc, calls, value, waiters, level, last_check,
                   now, admits>>
    /\ UNCHANGED <<callVars, sweepVars>>

\* lines 121 / 153: gather re-raises the first exception of a task; nothing
\* up to asyncio.run(main()) catches it, the run ends and the tasks still
\* pending are cancelled, each handing back the permit it holds.
GatherRaises ==
    /\ phase = "gathering"
    /\ \E t \in Tasks : pc[t] = "raised"
    /\ phase' = "crashed"
    /\ pc' = [t \in Tasks |-> IF pc[t] \in {"done", "raised"} THEN pc[t] ELSE "cancelled"]
    /\ waiters' = <<>>
    /\ value' = IF mode = "flood" THEN gate ELSE value
    /\ UNCHANGED <<mode, blocks, gate, calls, level, last_check, now, admits, csv>>
    /\ UNCHANGED <<callVars, sweepVars>>

BatchInit ==
    /\ mode \in {"flood", "limit"}
    /\ blocks \in 1..MaxBlocks
    /\ gate \in 1..MaxGate
    /\ pc = [t \in 1..blocks |-> "pending"]
    /\ calls = [t \in 1..blocks |-> NoReturn]
    /\ value = IF mode = "flood" THEN gate ELSE 0
    /\ waiters = <<>>
    /\ level = 0
    /\ last_check = 0
    /\ now = 0
    /\ admits = <<>>
    /\ phase = "gathering"
    /\ csv = <<>>

----------------------------------------------------------------------------
\* The sweeps: test_flood_protocols_all_providers, test_chainstack_concurrency
\* and test_limits_all, each a sequence of test_flood batches and sleeps.
\* The calls of a batch are counted, not told apart.

NUM_BLOCKS == 1000
cn == 5

Min(a, b) == IF a <= b THEN a ELSE b

NoLabel == [prefix |-> "", tag |-> "", b |-> 0, c |-> 0, p |-> "", i |-> 0]

NoBatch ==
    [label |-> NoLabel, runner |-> "", provider |-> "", blocks |-> 0,
     concurrency |-> 0, protocol |-> "", nclients |-> 0, use_hex |-> FALSE]

NoCounts == [waiting |-> 0, inflight |-> 0, finished |-> 0]

SweepIdle ==
    /\ sweep = "none"
    /\ conc = 0
    /\ loopv = [p |-> 0, stage |-> "", k |-> 0]
    /\ dpc = "idle"
    /\ cur = NoBatch
    /\ counts = NoCounts
    /\ stale = 0
    /\ files = {}
    /\ slept = 0
    /\ seq = 0

\* test_flood_protocols_all_providers: (prefix, use_hex) of its three calls.
FloodProviders ==
    << [name |-> "alchemy", use_hex |-> TRUE],
       [name |-> "chainstack", use_hex |-> FALSE],
       [name |-> "quicknode", use_hex |-> TRUE] >>

\* test_flood_protocols: (protocol, clients) of its four batches; 0 clients
\* stands for a single client that is not a list.
FloodProtocols ==
    << [p |-> "h1", i |-> 1, nclients |-> 0],
       [p |-> "h1", i |-> 3, nclients |-> 3],
       [p |-> "h2", i |-> 1, nclients |-> 0],
       [p |-> "h2", i |-> 3, nclients |-> 3] >>

\* test_limits_all: the providers in loop order.
LimitProviders == << "quicknode", "alchemy", "chainstack" >>

\* test_flood lines 130-153 as the sweep sees them: every task takes its
\* first step before any POST resolves, so the first `concurrency` of them
\* hold a permit and the rest queue.
Launch(batch) ==
    /\ cur' = batch
    /\ counts' = [waiting |-> batch.blocks - Min(batch.blocks, batch.concurrency),
                  inflight |-> Min(batch.blocks, batch.concurrency),
                  finished |-> 0]
    /\ stale' = stale + counts.waiting + counts.inflight
    /\ seq' = seq + 1
    /\ dpc' = "batch"
    /\ UNCHANGED <<sweep, conc, loopv, files, slept>>

\* test_flood_protocols lines 163-203: the k-th test_flood of provider p.
TestFloodProtocolsCall ==
    /\ sweep = "test_flood_protocols_all_providers"
    /\ dpc = "call"
    /\ LET pr == FloodProviders[loopv.p]
           cf == FloodProtocols[loopv.k]
       IN  Launch([label |-> [prefix |-> pr.name, tag |-> "", b |-> NUM_BLOCKS,
                              c |-> conc, p |-> cf.p, i |-> cf.i],
                   runner |-> "test_flood",
                   provider |-> pr.name,
                   blocks |-> NUM_BLOCKS,
                   concurrency |-> conc,
                   protocol |-> cf.p,
                   nclients |-> cf.nclients,
                   use_hex |-> pr.use_hex])
    /\ UNCHANGED <<callVars, batchVars>>

\* test_chainstack_concurrency lines 233-242: the test_flood of level n.
TestChainstackConcurrencyCall ==
    /\ sweep = "test_chainstack_concurrency"
    /\ dpc = "call"
    /\ LET n == loopv.k
       IN  Launch([label |-> [prefix |-> "chainstack,concurrency", tag |-> "limits",
                              b |-> n, c |-> n, p |-> "", i |-> 0],
                   runner |-> "test_flood",
                   provider |-> "chainstack",
                   blocks |-> n,
                   concurrency |-> n,
                   protocol |-> "h2",
                   nclients |-> 1,
                   use_hex |-> FALSE])
    /\ UNCHANGED <<callVars, batchVars>>

\* Mutant of LimitsCall: the burst factor is not applied.
LimitsCallFixedBurst(provider, i, bf, nclients) ==
    Launch([label |-> [prefix |-> provider, tag |-> "burst", b |-> 3 * i,
                       c |-> i, p |-> "h2", i |-> cn],
            runner |-> "test_flood",
            provider |-> provider,
            blocks |-> 3 * i,
            concurrency |-> i,
            protocol |-> "h2",
            nclients |-> nclients,
            use_hex |-> (provider # "chainstack")])

\* test_limits_all lines 257-267: _call(i, bf, clients).
LimitsCall(provider, i, bf, nclients) ==
    Launch([label |-> [prefix |-> provider, tag |-> "burst", b |-> bf * i,
                       c |-> i, p |-> "h2", i |-> cn],
            runner |-> "test_flood",
            provider |-> provider,
            blocks |-> bf * i,
            concurrency |-> i,
            protocol |-> "h2",
            nclients |-> nclients,
            use_hex |-> (provider # "chainstack")])

\* test_limits_all lines 272-276: the warm-up loop hands _call one client
\* of the list at a time, the series hands it the default list.
TestLimitsAllCall ==
    /\ sweep = "test_limits_all"
    /\ dpc = "call"
    /\ IF loopv.stage = "warmup"
       THEN LimitsCall(LimitProviders[loopv.p], cn, 1, 0)
       ELSE LimitsCall(LimitProviders[loopv.p], loopv.k, 3, cn)
    /\ UNCHANGED <<callVars, batchVars>>

\* Mutant of AllDone: the batch is taken as over once no call is queued.
AllAdmitted(c) == c.waiting = 0

\* The batch's gather has every result.
AllDone(c) == c.waiting = 0 /\ c.inflight = 0

\* A permit is released: the next queued call, if any, enters rpc_call.
Released(c) ==
    IF c.waiting > 0
    THEN [c EXCEPT !.waiting = c.waiting - 1]
    ELSE [c EXCEPT !.inflight = c.inflight - 1]

\* test_flood lines 138-141: one call in flight returns its record.
SweepCallReturns ==
    /\ dpc = "batch"
    /\ counts.inflight > 0
    /\ \E o \in BatchOutcomes : rpc_call(o).exc = ""
    /\ counts' = [Released(counts) EXCEPT !.finished = counts.finished + 1]
    /\ UNCHANGED <<sweep, conc, loopv, dpc, cur, stale, files, slept, seq>>
    /\ UNCHANGED <<callVars, batchVars>>

\* rpc_call raises in one call in flight; gather re-raises it (line 153)
\* and nothing up to asyncio.run(main()) catches it: the run ends, the
\* calls still pending are cancelled.
SweepCallRaises ==
    /\ dpc = "batch"
    /\ counts.inflight > 0
    /\ \E o \in BatchOutcomes : rpc_call(o).exc # ""
    /\ counts' = [counts EXCEPT !.waiting = 0, !.inflight = 0]
    /\ dpc' = "crashed"
    /\ UNCHANGED <<sweep, conc, loopv, cur, stale, files, slept, seq>>
    /\ UNCHANGED <<callVars, batchVars>>

\* The seconds of the asyncio.sleep that follows the batch at loopv; 0 when
\* the sweep ends there without one.
SleepAfter ==
    CASE sweep = "test_flood_protocols_all_providers" ->
            IF loopv.k < 4 THEN 60 ELSE IF loopv.p < 3 THEN 15 ELSE 0
      [] sweep = "test_chainstack_concurrency" -> 5
      [] sweep = "test_limits_all" -> 5
      [] OTHER -> 0

\* test_flood lines 153-159: gather returned, the stats are written under
\* the label; test_flood returns to the sweep.
SweepPersist ==
    /\ dpc = "batch"
    /\ AllDone(counts)
    /\ files' = files \cup {[label |-> cur.label, batch |-> seq,
                             rows |-> counts.finished, nclients |-> cur.nclients]}
    /\ slept' = 0
    /\ dpc' = IF SleepAfter > 0 THEN "sleep" ELSE "done"
    /\ UNCHANGED <<sweep, conc, loopv, cur, counts, stale, seq>>
    /\ UNCHANGED <<callVars, batchVars>>

\* The loop variables after the batch at loopv; the sweep is over when
\* they leave their ranges.
NextLoop ==
    CASE sweep = "test_flood_protocols_all_providers" ->
            IF loopv.k < 4 THEN [loopv EXCEPT !.k = loopv.k + 1]
            ELSE [loopv EXCEPT !.p = loopv.p + 1, !.k = 1]
      [] sweep = "test_chainstack_concurrency" -> [loopv EXCEPT !.k = loopv.k + 1]
      [] sweep = "test_limits_all" ->
            IF loopv.stage = "warmup"
            THEN IF loopv.k < cn THEN [loopv EXCEPT !.k = loopv.k + 1]
                 ELSE [loopv EXCEPT !.stage = "series", !.k = 5]
            ELSE IF loopv.k + 5 < 125 THEN [loopv EXCEPT !.k = loopv.k + 5]
                 ELSE [p |-> loopv.p + 1, stage |-> "warmup", k |-> 1]
      [] OTHER -> loopv

LoopOver(lv) ==
    CASE sweep = "test_flood_protocols_all_providers" -> lv.p > 3
      [] sweep = "test_chainstack_concurrency" -> lv.k >= 103
      [] sweep = "test_limits_all" -> lv.p > 3
      [] OTHER -> TRUE

\* await asyncio.sleep(...) after a batch, then on to the next iteration.
SweepSleep ==
    /\ dpc = "sleep"
    /\ slept' = slept + SleepAfter
    /\ loopv' = NextLoop
    /\ dpc' = IF LoopOver(NextLoop) THEN "done" ELSE "call"
    /\ UNCHANGED <<sweep, conc, cur, counts, stale, files, seq>>
    /\ UNCHANGED <<callVars, batchVars>>

\* main(): one sweep is awaited.
SweepInit ==
    /\ sweep \in {"test_flood_protocols_all_providers", "test_chainstack_concurrency",
                  "test_limits_all"}
    /\ conc \in (IF sweep = "test_flood_protocols_all_providers" THEN {100, 1000} ELSE {0})
    /\ loopv = (CASE sweep = "test_flood_protocols_all_providers" ->
                       [p |-> 1, stage |-> "", k |-> 1]
                  [] sweep = "test_chainstack_concurrency" ->
                       [p |-> 1, stage |-> "", k |-> 98]
                  [] OTHER -> [p |-> 1, stage |-> "warmup", k |-> 1])
    /\ dpc = "call"
    /\ cur = NoBatch
    /\ counts = NoCounts
    /\ stale = 0
    /\ files = {}
    /\ slept = 0
    /\ seq = 0

----------------------------------------------------------------------------
\* The specifications

\* ---- CallSpec: one rpc_call with a single client or a list of clients

CallInit ==
    /\ cclient \in 0..MaxPool
    /\ cchosen = 0
    /\ coutcome = NoOutcome
    /\ cpc = "start"
    /\ cret = NoReturn
    /\ BatchIdle
    /\ SweepIdle

CallNext == RpcCallPost \/ RpcCallResolve

CallSpec == CallInit /\ [][CallNext]_vars

\* ---- Spec: one batch of test_flood or test_limit

Init ==
    /\ BatchInit
    /\ CallIdle
    /\ SweepIdle

Next ==
    \/ \E t \in Tasks : FloodStart(t)
    \/ \E t \in Tasks : FloodResume(t)
    \/ \E t \in Tasks : FloodResolve(t)
    \/ \E t \in Tasks : LimitStart(t)
    \/ \E t \in Tasks : LimitRetry(t)
    \/ \E t \in Tasks : LimitResolve(t)
    \/ TickClock
    \/ Persist
    \/ GatherRaises

Spec == Init /\ [][Next]_vars

\* ---- FairSpec: one test_flood batch on an event loop that runs every
\* runnable task and on which every POST resolves

FairInit ==
    /\ BatchInit
    /\ mode = "flood"
    /\ CallIdle
    /\ SweepIdle

FairNext ==
    \/ \E t \in Tasks : FloodStart(t)
    \/ \E t \in Tasks : FloodResume(t)
    \/ \E t \in Tasks : FloodResolve(t)
    \/ Persist
    \/ GatherRaises

Fairness ==
    /\ \A t \in 1..MaxBlocks : WF_vars(t \in Tasks /\ FloodStart(t))
    /\ \A t \in 1..MaxBlocks : WF_vars(t \in Tasks /\ FloodResume(t))
    /\ \A t \in 1..MaxBlocks : WF_vars(t \in Tasks /\ FloodResolve(t))
    /\ WF_vars(Persist)
    /\ WF_vars(GatherRaises)

FairSpec == FairInit /\ [][FairNext]_vars /\ Fairness

\* ---- SweepSpec: one sweep awaited by main()

SweepStart ==
    /\ SweepInit
    /\ CallIdle
    /\ BatchIdle

SweepNext ==
    \/ TestFloodProtocolsCall
    \/ TestChainstackConcurrencyCall
    \/ TestLimitsAllCall
    \/ SweepCallReturns
    \/ SweepCallRaises
    \/ SweepPersist
    \/ SweepSleep

SweepSpec == SweepStart /\ [][SweepNext]_vars

----------------------------------------------------------------------------
\* Properties

Is2xx(o) == o.kind = "response" /\ o.response.status \in 200..299

CallEnded == cpc \in {"returned", "raised"}

InFlight == Cardinality({t \in Tasks : pc[t] = "posting"})

\* C1: every batch of test_flood or test_limit, whatever its calls resolve
\* to, ends persisted with one Call Record per requested block.
C1_BatchPersistsEveryRecord ==
    phase # "gathering" => (phase = "persisted" /\ Len(csv) = blocks)

\* C2: in flood mode the number of calls inside rpc_call never exceeds the
\* configured concurrency.
C2_InFlightAtMostConcurrency ==
    mode = "flood" => InFlight <= gate

\* A flood batch with every permit in use, a call queued behind them and a
\* call already finished.
C2_Witness ==
    /\ mode = "flood"
    /\ InFlight = gate
    /\ \E t \in Tasks : pc[t] = "waiting"
    /\ \E t \in Tasks : pc[t] = "done"

\* Admissions of the rate gate in the window [w, w + TimePeriod).
AdmittedIn(w) ==
    Cardinality({i \in 1..Len(admits) : w <= admits[i] /\ admits[i] < w + TimePeriod})

C4_Non2xxIsRecorded ==
    (CallEnded /\ coutcome.kind = "response" /\ ~Is2xx(coutcome))
        => /\ cpc = "returned"
           /\ cret.res = "None"
           /\ cret.error.t = "str"

\* A call that came back with status 500 and returned its record.
C4_Witness ==
    /\ cpc = "returned"
    /\ coutcome.kind = "response"
    /\ coutcome.response.status = 500
    /\ cret.error = Str("repr(HTTPStatusError)")

\* The error the claim expects for a body whose "error" member is f.
C5_Expected(f) ==
    CASE f.t = "absent" -> Null
      [] f.t = "obj" -> (IF f.mt = "str" THEN Str(f.ms) ELSE Null)
      [] OTHER -> f

Failed(o) ==
    \/ o.kind \in PostExceptions
    \/ o.kind = "response" /\ ~Is2xx(o)
    \/ /\ Is2xx(o)
       /\ o.response.body.json = "object"
       /\ o.response.body.error.t \notin {"absent", "null"}

\* C6: every failed call returns from rpc_call with a non-null error.
C6_FailedCallHasError ==
    (CallEnded /\ Failed(coutcome))
        => (cpc = "returned" /\ cret.error.t \notin {"null", "absent"})

\* The cooldown the design gives between the batch before and the running
\* one: 60 s between configurations, 15 s between providers, 5 s in the
\* probe and the limit sweep.
C7_Cooldown ==
    CASE sweep = "test_flood_protocols_all_providers" ->
            IF cur.label.p = "h1" /\ cur.label.i = 1 THEN 15 ELSE 60
      [] OTHER -> 5

\* C7: while a batch runs no call of an earlier batch is in flight, the
\* batch before it was persisted with all its records, and the cooldown
\* between the two has been slept.
C7_BatchesAreSequential ==
    /\ stale = 0
    /\ (dpc = "batch" /\ seq > 1)
          => /\ \E f \in files : f.batch = seq - 1 /\ f.rows = f.label.b
             /\ slept >= C7_Cooldown

\* The second provider's first batch of the protocol sweep is in flight.
C7_Witness ==
    /\ sweep = "test_flood_protocols_all_providers"
    /\ dpc = "batch"
    /\ seq = 5
    /\ counts.inflight > 0
    /\ slept = 15

\* C8: within a sweep no two batches write the same label, and the pool
\* size a label states is the number of clients its batch used.
C8_LabelsNameTheirBatch ==
    \A f \in files :
        /\ \A g \in files : f.label = g.label => f.batch = g.batch
        /\ f.label.i # 0 => f.label.i = (IF f.nclients = 0 THEN 1 ELSE f.nclients)

\* Position of the running batch among the batches of its provider, and
\* that provider, when a provider takes `per` batches.
C9_Position(per) == ((seq - 1) % per) + 1
C9_Provider(per) == << "quicknode", "alchemy", "chainstack" >>[((seq - 1) \div per) + 1]

\* C9 as stated: per provider one warm-up batch, then rate-gated batches at
\* levels 5, 10, .. 120 with 3 * level blocks over the pool of 5 clients,
\* each batch followed by a 5-second sleep.
C9_OneWarmupThenRateGated ==
    (sweep = "test_limits_all" /\ dpc = "batch")
        => /\ seq > 1 => slept = 5
           /\ C9_Position(25) > 1
                => /\ cur.runner = "test_limit"
                   /\ cur.concurrency = 5 * (C9_Position(25) - 1)
                   /\ cur.blocks = 3 * cur.concurrency
                   /\ cur.nclients = 5

\* C9 amended: per provider five warm-up batches, one per client of the
\* pool (flood mode, concurrency 5, 5 blocks, that client alone), then
\* flood-mode batches at concurrency 5, 10, .. 120 with 3 * level blocks
\* over the pool of 5 clients, each batch followed by a 5-second sleep; a
\* sweep that ends has run all 87 of them.
C9_FiveWarmupsThenFloodSeries ==
    /\ (sweep = "test_limits_all" /\ dpc = "batch")
          => /\ seq > 1 => slept = 5
             /\ cur.runner = "test_flood"
             /\ cur.protocol = "h2"
             /\ cur.provider = C9_Provider(29)
             /\ IF C9_Position(29) <= 5
                THEN /\ cur.concurrency = 5
                     /\ cur.blocks = 5
                     /\ cur.nclients = 0
                ELSE /\ cur.concurrency = 5 * (C9_Position(29) - 5)
                     /\ cur.blocks = 3 * cur.concurrency
                     /\ cur.nclients = 5
    /\ (sweep = "test_limits_all" /\ dpc = "done") => (seq = 87 /\ slept = 5)

\* The limit sweep has run to its end.
C9_Witness ==
    /\ sweep = "test_limits_all"
    /\ dpc = "done"
    /\ cur.provider = "chainstack"
    /\ cur.concurrency = 120
    /\ cur.blocks = 360

\* C10: a flood batch whose POSTs all resolve ends persisted with every
\* permit free again.
C10_FloodBatchCompletes ==
    <>(phase = "persisted" /\ value = gate /\ \A t \in Tasks : pc[t] = "done")

====
